---- MODULE Spec2Model ----
(***************************************************************************)
(* Model of src/main/resources/cellpose_segment.py: the command-line       *)
(* adapter that decodes an image, runs a Cellpose model on it and saves    *)
(* the label mask as a 16-bit raster.                                      *)
(*                                                                         *)
(* One run of the script is one behaviour.  The script's statements are    *)
(* the actions; pc names the statement that runs next.  The collaborators  *)
(* (skimage.io, cellpose.models) either return a value or raise; which of  *)
(* the two, and the value returned, is an input chosen when the call is    *)
(* made.  A print to standard output raises (UnicodeEncodeError) when the  *)
(* text holds a character the stream's encoding cannot encode; standard    *)
(* error never raises (Python opens it with errors='backslashreplace').    *)
(*                                                                         *)
(* Strings are sequences of characters.  Optional values are sequences of  *)
(* length 0 (None) or 1.  Real numbers are fractions [num, den].           *)
(***************************************************************************)
EXTENDS Integers, Sequences, FiniteSets, TLC

VARIABLES
    sys_argv,            \* sys.argv, the program name first
    stdout_encoding,     \* sys.stdout.encoding
    pc,                  \* the statement that runs next
    input_path,          \* line 81 (optional)
    output_path,         \* line 82 (optional)
    diameter,            \* line 83 (optional)
    model_type,          \* line 84 (optional)
    flow_threshold,      \* line 85 (optional)
    cellprob_threshold,  \* line 86 (optional)
    img,                 \* the local img of run_cellpose (optional)
    decoded,             \* what io.imread returned (optional)
    model,               \* the models.Cellpose instance (optional)
    eval_call,           \* the arguments model.eval received (optional)
    masks,               \* the label mask model.eval returned (optional)
    writes,              \* the io.imsave calls that wrote a file, in order
    stdout,              \* the lines printed to standard output
    stderr,              \* the lines printed to standard error
    exit_code,           \* what run_cellpose returned (optional)
    exit_status,         \* the process exit status (optional)
    steps,               \* the steps started, in order
    raised               \* the step that raised (optional)

vars == <<sys_argv, stdout_encoding, pc, input_path, output_path, diameter,
          model_type, flow_threshold, cellprob_threshold, img, decoded, model,
          eval_call, masks, writes, stdout, stderr, exit_code, exit_status, steps,
          raised>>

\* ------------------------------------------------------------- bounds

MaxArgs == 7     \* at most this many positional arguments
MaxNdim == 4     \* decoded arrays have 2..MaxNdim axes
MaxAxis == 4     \* each axis has length 1..MaxAxis
MaxPixels == 6   \* a decoded array has at most this many elements
MaxSeed == 1     \* pixel patterns 0..MaxSeed

\* ------------------------------------------------------------- values

None == <<>>
Some(x) == <<x>>
IsSome(o) == Len(o) = 1
Get(o) == o[1]
Contains(seq, x) == \E i \in 1..Len(seq) : seq[i] = x

NonAscii == {"u+00e9"}
Digits == {"0", "3", "4", "5"}
DigitVal == ("0" :> 0) @@ ("3" :> 3) @@ ("4" :> 4) @@ ("5" :> 5)

\* The argument strings a run is started with.
PathPool == {<<"a">>, <<"u+00e9">>}
OutPathPool == {<<"b">>, <<"u+00e9">>}
ModelPool == {<<"c", "y", "t", "o">>, <<"u+00e9">>}
DiameterPool == {<<"0">>, <<"3", ".", "5">>, <<"-", "3">>, <<"x">>}
FlowPool == {<<"0", ".", "4">>, <<>>}
CellprobPool == {<<"-", ".", "5">>, <<".">>}
ExtraPool == {<<"x">>}
ProgramName == <<"p">>
EncodingPool == {"ascii", "utf-8"}

\* ------------------------------------------------------ float(string)

RECURSIVE DigitsToInt(_)
DigitsToInt(s) ==
    IF s = <<>> THEN 0
    ELSE 10 * DigitsToInt(SubSeq(s, 1, Len(s) - 1)) + DigitVal[s[Len(s)]]

RECURSIVE Pow10(_)
Pow10(n) == IF n = 0 THEN 1 ELSE 10 * Pow10(n - 1)

Unsigned(s) == IF s # <<>> /\ s[1] \in {"+", "-"} THEN Tail(s) ELSE s
DotPositions(s) == {i \in 1..Len(s) : s[i] = "."}
WithoutDots(s) == SelectSeq(s, LAMBDA c : c # ".")

\* float(s) on strings over the digits, the signs, the point and letters that
\* are no part of a number: it succeeds on [sign] digits [. digits] and on
\* [sign] . digits, and raises ValueError on everything else
FloatParses(s) ==
    LET b == Unsigned(s) IN
    /\ \A i \in 1..Len(b) : b[i] \in Digits \cup {"."}
    /\ Cardinality(DotPositions(b)) <= 1
    /\ Len(WithoutDots(b)) >= 1

FloatValue(s) ==
    LET b == Unsigned(s)
        neg == s # <<>> /\ s[1] = "-"
        dots == DotPositions(b)
        frac == IF dots = {} THEN 0 ELSE Len(b) - (CHOOSE i \in dots : TRUE)
        n == DigitsToInt(WithoutDots(b))
    IN  [num |-> IF neg THEN 0 - n ELSE n, den |-> Pow10(frac)]

\* ------------------------------------------------------------- arrays

RECURSIVE Product(_)
Product(s) == IF s = <<>> THEN 1 ELSE s[1] * Product(Tail(s))

RECURSIVE ShapesOfLen(_)
ShapesOfLen(n) ==
    IF n = 0 THEN {<<>>}
    ELSE {Append(s, a) : s \in ShapesOfLen(n - 1), a \in 1..MaxAxis}

Shapes ==
    {s \in UNION {ShapesOfLen(n) : n \in 2..MaxNdim} : Product(s) <= MaxPixels}

Pixel(seed, k) == (k * k * (seed + 1) + seed) % 256

\* An array: its shape, its dtype, and its elements in row-major order; the
\* element k has the value data[k] / den.
Images ==
    {[shape |-> s, dtype |-> "uint8", den |-> 1,
      data |-> [k \in 1..Product(s) |-> Pixel(seed, k)]] :
        s \in Shapes, seed \in 0..MaxSeed}

\* a[:, :, :n] of a 3-axis array
SliceChannelsAll(a, n) == a
SliceChannels(a, n) ==
    LET H == a.shape[1]
        W == a.shape[2]
        C == a.shape[3]
        m == IF n < C THEN n ELSE C
    IN  [shape |-> <<H, W, m>>, dtype |-> a.dtype, den |-> a.den,
         data |-> [k \in 1..(H * W * m) |->
                     a.data[((k - 1) \div m) * C + ((k - 1) % m) + 1]]]

RECURSIVE SumRange(_, _, _)
SumRange(f, lo, hi) == IF lo > hi THEN 0 ELSE f[lo] + SumRange(f, lo + 1, hi)

\* np.mean(a, axis=2) of a 3-axis array: a float64 array of shape (H, W)
MeanAxis2(a) ==
    LET H == a.shape[1]
        W == a.shape[2]
        C == a.shape[3]
    IN  [shape |-> <<H, W>>, dtype |-> "float64", den |-> a.den * C,
         data |-> [k \in 1..(H * W) |->
                     SumRange(a.data, (k - 1) * C + 1, k * C)]]

\* lines 42-43: the test that decides the conversion to grayscale
IsColorAnyNdim(shape) ==
    Len(shape) >= 3 /\ (shape[Len(shape)] = 3 \/ shape[Len(shape)] = 4)
IsColor(shape) ==
    Len(shape) = 3 /\ (shape[3] = 3 \/ shape[3] = 4)

\* lines 42-45
ToGrayscale(a) ==
    IF IsColor(a.shape) THEN MeanAxis2(SliceChannels(a, 3)) ELSE a

\* line 56: diameter if diameter > 0 else None
DiameterArgNonNegative(d) == IF d.num >= 0 THEN Some(d) ELSE None
DiameterArg(d) == IF d.num > 0 THEN Some(d) ELSE None

\* line 65: masks.astype(np.uint16)
Uint16Range == 65536
Saturate(v) == IF v >= Uint16Range THEN Uint16Range - 1 ELSE v
CastUint16(v) == v % Uint16Range
AsUint16(a) ==
    [shape |-> a.shape, dtype |-> "uint16", den |-> 1,
     data |-> [k \in DOMAIN a.data |-> CastUint16(a.data[k])]]

\* The label masks model.eval returns.
LabelPool == {0, 65535, 65536}
MaskShapes == {<<1, 1>>, <<1, 2>>}
Masks ==
    UNION {{[shape |-> s, dtype |-> "int32", den |-> 1, data |-> d] :
              d \in [1..Product(s) -> LabelPool]} : s \in MaskShapes}

\* ------------------------------------------------------------- output

Line(text, arg, n) == [text |-> text, arg |-> arg, n |-> n]

RECURSIVE MaxOf(_, _)
MaxOf(f, n) ==
    IF n = 1 THEN f[1]
    ELSE LET m == MaxOf(f, n - 1) IN IF f[n] > m THEN f[n] ELSE m

\* print(...) to sys.stdout raises when the text cannot be encoded
Encodable(s) ==
    stdout_encoding = "utf-8" \/ \A i \in 1..Len(s) : s[i] \notin NonAscii

\* --------------------------------------------------------------- Init

ArgLists ==
    {<<ProgramName, i, o, d, m, f, c>> \o
       [k \in 1..(IF MaxArgs > 6 THEN MaxArgs - 6 ELSE 0) |-> x] :
        i \in PathPool, o \in OutPathPool, d \in DiameterPool, m \in ModelPool,
        f \in FlowPool, c \in CellprobPool, x \in ExtraPool}

Init ==
    /\ \E full \in ArgLists, n \in 0..MaxArgs : sys_argv = SubSeq(full, 1, n + 1)
    /\ stdout_encoding \in EncodingPool
    /\ pc = "main"
    /\ input_path = None
    /\ output_path = None
    /\ diameter = None
    /\ model_type = None
    /\ flow_threshold = None
    /\ cellprob_threshold = None
    /\ img = None
    /\ decoded = None
    /\ model = None
    /\ eval_call = None
    /\ masks = None
    /\ writes = <<>>
    /\ stdout = <<>>
    /\ stderr = <<>>
    /\ exit_code = None
    /\ exit_status = None
    /\ steps = <<>>
    /\ raised = None

\* ----------------------------------------------------------- __main__

\* line 77: len(sys.argv) != 7
ArgCountAtLeast(argv) == Len(argv) >= 7
ArgCountOk(argv) == Len(argv) = 7

\* lines 77-79: the usage message and sys.exit(1)
UsageExit ==
    /\ pc = "main"
    /\ ~ArgCountOk(sys_argv)
    /\ stdout' = Append(stdout, Line("Usage:", <<>>, 0))
    /\ exit_status' = Some(1)
    /\ steps' = Append(steps, "exit")
    /\ pc' = "done"
    /\ UNCHANGED <<sys_argv, stdout_encoding, input_path, output_path, diameter,
                   model_type, flow_threshold, cellprob_threshold, img, decoded,
                   model, eval_call, masks, writes, stderr, exit_code, raised>>

\* an exception nothing catches: the interpreter prints the traceback to
\* standard error and the process ends with status 1
Uncaught(step, msg) ==
    /\ stderr' = Append(stderr, Line("Traceback", msg, 0))
    /\ raised' = Some(step)
    /\ exit_status' = Some(1)
    /\ steps' = steps \o <<step, "exit">>
    /\ pc' = "done"
    /\ UNCHANGED exit_code

\* lines 70-74: the handler of run_cellpose, which returns 1
ExceptReturnsZero(step, msg) ==
    /\ stderr' = stderr \o <<Line("ERROR:", msg, 0), Line("Traceback", msg, 0)>>
    /\ raised' = Some(step)
    /\ exit_code' = Some(0)
    /\ pc' = "exit"
    /\ UNCHANGED exit_status
Except(step, msg) ==
    /\ stderr' = stderr \o <<Line("ERROR:", msg, 0), Line("Traceback", msg, 0)>>
    /\ raised' = Some(step)
    /\ exit_code' = Some(1)
    /\ pc' = "exit"
    /\ UNCHANGED exit_status

\* the parse of lines 83-86 handled by run_cellpose's handler
CaughtParse(step, msg) ==
    /\ Except(step, msg)
    /\ steps' = steps \o <<step, "run_cellpose">>
ParseFailure(step, msg) == Uncaught(step, msg)

\* lines 81-86: the six arguments, three of them through float()
ParseArgs ==
    /\ pc = "main"
    /\ ArgCountOk(sys_argv)
    /\ input_path' = Some(sys_argv[2])
    /\ output_path' = Some(sys_argv[3])
    /\ IF ~FloatParses(sys_argv[4])
       THEN /\ ParseFailure("parse", sys_argv[4])
            /\ UNCHANGED <<diameter, model_type, flow_threshold, cellprob_threshold>>
       ELSE /\ diameter' = Some(FloatValue(sys_argv[4]))
            /\ model_type' = Some(sys_argv[5])
            /\ IF ~FloatParses(sys_argv[6])
               THEN /\ ParseFailure("parse", sys_argv[6])
                    /\ UNCHANGED <<flow_threshold, cellprob_threshold>>
               ELSE /\ flow_threshold' = Some(FloatValue(sys_argv[6]))
                    /\ IF ~FloatParses(sys_argv[7])
                       THEN /\ ParseFailure("parse", sys_argv[7])
                            /\ UNCHANGED cellprob_threshold
                       ELSE /\ cellprob_threshold' = Some(FloatValue(sys_argv[7]))
                            /\ steps' = Append(steps, "parse")
                            /\ pc' = "load"
                            /\ UNCHANGED <<stderr, raised, exit_code, exit_status>>
    /\ UNCHANGED <<sys_argv, stdout_encoding, img, decoded, model, eval_call,
                   masks, writes, stdout>>

\* ------------------------------------------------------- run_cellpose

\* lines 37-38: run_cellpose is entered (line 88) and prints the input path
PrintLoading ==
    /\ pc = "load"
    /\ IF Encodable(Get(input_path))
       THEN /\ stdout' = Append(stdout, Line("Loading image from", Get(input_path), 0))
            /\ pc' = "imread"
            /\ UNCHANGED <<stderr, raised, exit_code, exit_status>>
       ELSE /\ Except("print_loading", Get(input_path))
            /\ UNCHANGED stdout
    /\ steps' = Append(steps, "run_cellpose")
    /\ UNCHANGED <<sys_argv, stdout_encoding, input_path, output_path, diameter,
                   model_type, flow_threshold, cellprob_threshold, img, decoded,
                   model, eval_call, masks, writes>>

\* line 39: io.imread returns an array
ImreadReturns ==
    /\ pc = "imread"
    /\ \E a \in Images :
        /\ decoded' = Some(a)
        /\ img' = Some(a)
    /\ steps' = Append(steps, "imread")
    /\ pc' = "grayscale"
    /\ UNCHANGED <<sys_argv, stdout_encoding, input_path, output_path, diameter,
                   model_type, flow_threshold, cellprob_threshold, model,
                   eval_call, masks, writes, stdout, stderr, exit_code,
                   exit_status, raised>>

\* line 39: io.imread raises (no such file, not an image)
ImreadRaises ==
    /\ pc = "imread"
    /\ Except("imread", Get(input_path))
    /\ steps' = Append(steps, "imread")
    /\ UNCHANGED <<sys_argv, stdout_encoding, input_path, output_path, diameter,
                   model_type, flow_threshold, cellprob_threshold, img, decoded,
                   model, eval_call, masks, writes, stdout>>

\* lines 41-45: the conversion to grayscale
Grayscale ==
    /\ pc = "grayscale"
    /\ img' = Some(ToGrayscale(Get(img)))
    /\ steps' = IF IsColor(Get(img).shape) THEN Append(steps, "grayscale") ELSE steps
    /\ pc' = "info"
    /\ UNCHANGED <<sys_argv, stdout_encoding, input_path, output_path, diameter,
                   model_type, flow_threshold, cellprob_threshold, decoded, model,
                   eval_call, masks, writes, stdout, stderr, exit_code,
                   exit_status, raised>>

\* lines 47-48: the shape and the configuration
PrintInfo ==
    /\ pc = "info"
    /\ IF Encodable(Get(model_type))
       THEN /\ stdout' = stdout \o <<Line("Image shape:", <<>>, Len(Get(img).shape)),
                                    Line("Running Cellpose with model=", Get(model_type), 0)>>
            /\ pc' = "construct"
            /\ UNCHANGED <<stderr, raised, exit_code, exit_status>>
       ELSE /\ stdout' = Append(stdout, Line("Image shape:", <<>>, Len(Get(img).shape)))
            /\ Except("print_info", Get(model_type))
    /\ UNCHANGED <<sys_argv, stdout_encoding, input_path, output_path, diameter,
                   model_type, flow_threshold, cellprob_threshold, img, decoded,
                   model, eval_call, masks, writes, steps>>

\* line 51: models.Cellpose(gpu=False, model_type=model_type) returns
ConstructReturns ==
    /\ pc = "construct"
    /\ model' = Some([gpu |-> FALSE, model_type |-> Get(model_type)])
    /\ steps' = Append(steps, "construct")
    /\ pc' = "eval"
    /\ UNCHANGED <<sys_argv, stdout_encoding, input_path, output_path, diameter,
                   model_type, flow_threshold, cellprob_threshold, img, decoded,
                   eval_call, masks, writes, stdout, stderr, exit_code,
                   exit_status, raised>>

\* line 51: models.Cellpose raises (unknown model, no weights)
ConstructRaises ==
    /\ pc = "construct"
    /\ Except("construct", Get(model_type))
    /\ steps' = Append(steps, "construct")
    /\ UNCHANGED <<sys_argv, stdout_encoding, input_path, output_path, diameter,
                   model_type, flow_threshold, cellprob_threshold, img, decoded,
                   model, eval_call, masks, writes, stdout>>

\* lines 54-60: the arguments of model.eval
EvalArgs ==
    [img |-> Get(img),
     diameter |-> DiameterArg(Get(diameter)),
     flow_threshold |-> Get(flow_threshold),
     cellprob_threshold |-> Get(cellprob_threshold),
     channels |-> <<0, 0>>,
     model |-> Get(model)]

\* lines 54-60: model.eval returns a label mask
EvalReturns ==
    /\ pc = "eval"
    /\ eval_call' = Some(EvalArgs)
    /\ \E m \in Masks : masks' = Some(m)
    /\ steps' = Append(steps, "eval")
    /\ pc' = "found"
    /\ UNCHANGED <<sys_argv, stdout_encoding, input_path, output_path, diameter,
                   model_type, flow_threshold, cellprob_threshold, img, decoded,
                   model, writes, stdout, stderr, exit_code, exit_status, raised>>

\* lines 54-60: model.eval raises
EvalRaises ==
    /\ pc = "eval"
    /\ eval_call' = Some(EvalArgs)
    /\ Except("eval", <<>>)
    /\ steps' = Append(steps, "eval")
    /\ UNCHANGED <<sys_argv, stdout_encoding, input_path, output_path, diameter,
                   model_type, flow_threshold, cellprob_threshold, img, decoded,
                   model, masks, writes, stdout>>

\* line 62: the number of objects
PrintFound ==
    /\ pc = "found"
    /\ stdout' = Append(stdout, Line("Segmentation complete. Found", <<>>,
                                     MaxOf(Get(masks).data, Len(Get(masks).data))))
    /\ pc' = "imsave"
    /\ UNCHANGED <<sys_argv, stdout_encoding, input_path, output_path, diameter,
                   model_type, flow_threshold, cellprob_threshold, img, decoded,
                   model, eval_call, masks, writes, stderr, exit_code,
                   exit_status, steps, raised>>

\* line 65: io.imsave(output_path, masks.astype(np.uint16)) writes the file
ImsaveReturns ==
    /\ pc = "imsave"
    /\ writes' = Append(writes, [path |-> Get(output_path),
                                 data |-> AsUint16(Get(masks))])
    /\ steps' = Append(steps, "imsave")
    /\ pc' = "saved"
    /\ UNCHANGED <<sys_argv, stdout_encoding, input_path, output_path, diameter,
                   model_type, flow_threshold, cellprob_threshold, img, decoded,
                   model, eval_call, masks, stdout, stderr, exit_code,
                   exit_status, raised>>

\* line 65 with one more attempt after a first failure
ImsaveRetriesOnce ==
    /\ pc = "imsave"
    /\ steps' = Append(steps, "imsave")
    /\ IF Contains(steps, "imsave")
       THEN Except("imsave", Get(output_path))
       ELSE UNCHANGED <<pc, stderr, raised, exit_code, exit_status>>
    /\ UNCHANGED <<sys_argv, stdout_encoding, input_path, output_path, diameter,
                   model_type, flow_threshold, cellprob_threshold, img, decoded,
                   model, eval_call, masks, writes, stdout>>

\* line 65: io.imsave raises (the path cannot be written)
ImsaveRaises ==
    /\ pc = "imsave"
    /\ Except("imsave", Get(output_path))
    /\ steps' = Append(steps, "imsave")
    /\ UNCHANGED <<sys_argv, stdout_encoding, input_path, output_path, diameter,
                   model_type, flow_threshold, cellprob_threshold, img, decoded,
                   model, eval_call, masks, writes, stdout>>

\* lines 66-68: the last progress line, then return 0
PrintSaved ==
    /\ pc = "saved"
    /\ IF Encodable(Get(output_path))
       THEN /\ stdout' = Append(stdout, Line("Saved label image to", Get(output_path), 0))
            /\ exit_code' = Some(0)
            /\ pc' = "exit"
            /\ UNCHANGED <<stderr, raised, exit_status>>
       ELSE /\ Except("print_saved", Get(output_path))
            /\ UNCHANGED stdout
    /\ UNCHANGED <<sys_argv, stdout_encoding, input_path, output_path, diameter,
                   model_type, flow_threshold, cellprob_threshold, img, decoded,
                   model, eval_call, masks, writes, steps>>

\* lines 88-89: sys.exit(exit_code)
SysExit ==
    /\ pc = "exit"
    /\ exit_status' = exit_code
    /\ steps' = Append(steps, "exit")
    /\ pc' = "done"
    /\ UNCHANGED <<sys_argv, stdout_encoding, input_path, output_path, diameter,
                   model_type, flow_threshold, cellprob_threshold, img, decoded,
                   model, eval_call, masks, writes, stdout, stderr, exit_code,
                   raised>>

Next ==
    \/ UsageExit
    \/ ParseArgs
    \/ PrintLoading
    \/ ImreadReturns
    \/ ImreadRaises
    \/ Grayscale
    \/ PrintInfo
    \/ ConstructReturns
    \/ ConstructRaises
    \/ EvalReturns
    \/ EvalRaises
    \/ PrintFound
    \/ ImsaveReturns
    \/ ImsaveRaises
    \/ PrintSaved
    \/ SysExit

Spec == Init /\ [][Next]_vars

\* every statement of the script returns or raises: the run goes on
FairSpec == Spec /\ WF_vars(Next)

\* ------------------------------------------------------------ claims

HasLine(stream, text) == \E i \in 1..Len(stream) : stream[i].text = text

WellFormed ==
    /\ Len(sys_argv) = 7
    /\ FloatParses(sys_argv[4])
    /\ FloatParses(sys_argv[6])
    /\ FloatParses(sys_argv[7])

\* steps 1-5 of the design: decode, reduction, construction, evaluation, write
StepsOneToFiveComplete ==
    /\ IsSome(decoded)
    /\ IsSome(model)
    /\ IsSome(masks)
    /\ Len(writes) = 1

StepsOneToFive == {"imread", "construct", "eval", "imsave"}

\* C1: a run with 6 well-formed arguments exits with 0 exactly when decode,
\* reduction, construction, evaluation and write all completed; when one of
\* them raised, "ERROR: ..." is on standard error and the status is 1; the
\* status is never anything but 0 or 1.
C1_ExitZeroIffStepsComplete ==
    (pc = "done" /\ WellFormed) =>
        /\ exit_status \in {Some(0), Some(1)}
        /\ (exit_status = Some(0)) <=> StepsOneToFiveComplete
        /\ (IsSome(raised) /\ Get(raised) \in StepsOneToFive) =>
               (HasLine(stderr, "ERROR:") /\ exit_status = Some(1))

\* C2: with a number of arguments other than 6 the run prints the usage line
\* to standard output and exits with 1; nothing is parsed, decoded,
\* constructed, evaluated or written.
C2_UsageOnWrongCount ==
    (Len(sys_argv) # 7) =>
        /\ input_path = None /\ output_path = None /\ diameter = None
        /\ model_type = None /\ flow_threshold = None
        /\ cellprob_threshold = None
        /\ decoded = None /\ model = None /\ eval_call = None
        /\ writes = <<>>
        /\ stderr = <<>>
        /\ pc \in {"main", "done"}
        /\ (pc = "done") =>
               /\ stdout = <<Line("Usage:", <<>>, 0)>>
               /\ exit_status = Some(1)
               /\ steps = <<"exit">>

C2_Witness == pc = "done" /\ Len(sys_argv) = 8 /\ HasLine(stdout, "Usage:")

\* C3: when the decode of input_path raises, the run exits with 1, an
\* "ERROR:" line about the failure is on standard error, no model was
\* constructed or evaluated and no file was written.
C3_DecodeFailure ==
    (raised = Some("imread")) =>
        /\ model = None /\ eval_call = None /\ masks = None
        /\ writes = <<>>
        /\ decoded = None
        /\ Contains(stderr, Line("ERROR:", Get(input_path), 0))
        /\ pc \in {"exit", "done"}
        /\ (pc = "done") => exit_status = Some(1)

C3_Witness == pc = "done" /\ raised = Some("imread") /\ exit_status = Some(1)

\* C4: a run is all-or-nothing: status 0 means output_path was written
\* exactly once, status 1 means output_path was not written, and no other
\* path is ever written, whichever statement fails.
C4_AllOrNothing ==
    /\ \A i \in 1..Len(writes) : Some(writes[i].path) = output_path
    /\ (pc = "done" /\ exit_status = Some(0)) => Len(writes) = 1
    /\ (pc = "done" /\ exit_status = Some(1)) => writes = <<>>

\* C5: with 6 arguments of which diameter, flow_threshold or
\* cellprob_threshold is no number, the run exits with 1, run_cellpose is
\* never entered, its "ERROR:" line is not printed, and nothing is decoded,
\* constructed or written.
C5_ParseFailureUncaught ==
    (Len(sys_argv) = 7 /\ ~WellFormed) =>
        /\ ~Contains(steps, "run_cellpose")
        /\ ~HasLine(stderr, "ERROR:")
        /\ exit_code = None
        /\ decoded = None /\ model = None /\ eval_call = None
        /\ writes = <<>>
        /\ pc \in {"main", "done"}
        /\ (pc = "done") =>
               /\ exit_status = Some(1)
               /\ raised = Some("parse")
               /\ HasLine(stderr, "Traceback")

C5_Witness ==
    /\ pc = "done"
    /\ Len(sys_argv) = 7
    /\ FloatParses(sys_argv[4])
    /\ ~FloatParses(sys_argv[6])
    /\ exit_status = Some(1)

\* C6: for a parsed diameter d >= 0 the model is evaluated with no diameter
\* (None) when d = 0 and with d when d > 0; the two thresholds and the model
\* type reach the model as parsed.
C6_DiameterPassThrough ==
    (IsSome(eval_call) /\ FloatValue(sys_argv[4]).num >= 0) =>
        LET call == Get(eval_call)
            d == FloatValue(sys_argv[4])
        IN  /\ (d.num = 0) => call.diameter = None
            /\ (d.num > 0) => call.diameter = Some(d)
            /\ call.flow_threshold = FloatValue(sys_argv[6])
            /\ call.cellprob_threshold = FloatValue(sys_argv[7])
            /\ call.model.model_type = sys_argv[5]

C6_Witness ==
    /\ IsSome(eval_call)
    /\ Get(diameter).num = 0
    /\ Get(eval_call).diameter = None

\* the element (i, j, c) of a 3-axis array, counted from 1
At3(a, i, j, c) == a.data[((i - 1) * a.shape[2] + (j - 1)) * a.shape[3] + c]

\* p is the 2-axis array of the means of the first three channels of a
IsMeanOfFirstThree(p, a) ==
    /\ p.shape = <<a.shape[1], a.shape[2]>>
    /\ p.den = 3
    /\ \A i \in 1..a.shape[1], j \in 1..a.shape[2] :
          p.data[(i - 1) * a.shape[2] + j] =
              At3(a, i, j, 1) + At3(a, i, j, 2) + At3(a, i, j, 3)

HasTrailingChannelAxis(a) ==
    Len(a.shape) >= 3 /\ a.shape[Len(a.shape)] \in {3, 4}

\* C7 as stated: an array with a trailing axis of length 3 or 4 reaches the
\* model as the 2-axis mean of its first three channels, any other array
\* unchanged.
C7_TrailingAxisReduced ==
    IsSome(eval_call) =>
        LET a == Get(decoded)
            p == Get(eval_call).img
        IN  IF HasTrailingChannelAxis(a)
            THEN Len(p.shape) = 2 /\ p.dtype = "float64"
            ELSE p = a

\* C7 as amended: an array with exactly three axes, the third of length 3 or
\* 4, reaches the model as the 2-axis array whose value at a pixel is the
\* mean of the first three channels at that pixel; any other array reaches
\* it unchanged.
C7_ThreeAxisReduced ==
    IsSome(eval_call) =>
        LET a == Get(decoded)
            p == Get(eval_call).img
        IN  IF Len(a.shape) = 3 /\ a.shape[3] \in {3, 4}
            THEN IsMeanOfFirstThree(p, a)
            ELSE p = a

C7_Witness ==
    /\ IsSome(eval_call)
    /\ Get(decoded).shape = <<1, 1, 4>>
    /\ Get(eval_call).img.shape = <<1, 1>>
    /\ 4 * Get(eval_call).img.data[1] # 3 * SumRange(Get(decoded).data, 1, 4)

\* C8: on a successful run each saved pixel is the label modulo 2^16 at that
\* pixel, in the mask's shape: labels up to 65535 are saved as they are, an
\* all-zero mask as an all-zero raster, a larger label wrapped, and the
\* wrap is no error.
C8_SavedLabels ==
    /\ (pc = "done" /\ exit_status = Some(0)) => Len(writes) = 1
    /\ (pc = "saved") => Len(writes) = 1
    /\ \A w \in 1..Len(writes) :
          LET saved == writes[w].data
              m == Get(masks)
          IN  /\ saved.shape = m.shape
              /\ DOMAIN saved.data = DOMAIN m.data
              /\ \A k \in DOMAIN m.data :
                    /\ saved.data[k] \in 0..65535
                    /\ \E q \in 0..(m.data[k] \div 65536) :
                          m.data[k] = saved.data[k] + q * 65536
                    /\ (m.data[k] <= 65535) => saved.data[k] = m.data[k]

C8_Witness ==
    /\ pc = "done"
    /\ exit_status = Some(0)
    /\ Get(masks).data = <<65536, 65535>>
    /\ writes[1].data.data = <<0, 65535>>

Rank ==
    ("parse" :> 1) @@ ("run_cellpose" :> 2) @@ ("imread" :> 3) @@
    ("grayscale" :> 4) @@ ("construct" :> 5) @@ ("eval" :> 6) @@
    ("imsave" :> 7) @@ ("exit" :> 8)

StepsInOrder ==
    \A i, j \in 1..Len(steps) : i < j => Rank[steps[i]] < Rank[steps[j]]

StepsNeedEarlier ==
    /\ Contains(steps, "run_cellpose") => Contains(steps, "parse")
    /\ Contains(steps, "imread") => Contains(steps, "run_cellpose")
    /\ Contains(steps, "grayscale") => IsSome(decoded)
    /\ Contains(steps, "construct") => IsSome(decoded)
    /\ Contains(steps, "eval") => IsSome(model)
    /\ Contains(steps, "imsave") => IsSome(masks)
    /\ (writes # <<>>) => (Len(writes) = 1 /\ IsSome(masks))

NothingAfterFailure ==
    IsSome(raised) =>
        /\ steps' \in {steps, Append(steps, "exit")}
        /\ writes' = writes
        /\ raised' = raised

\* C9: the steps parse, decode, reduction, construction, evaluation, write,
\* exit happen at most once each and in this order; a step starts only
\* after the earlier ones completed; after a failure no later step but the
\* exit happens; and every run reaches its exit.
C9_OrderedAndTerminates ==
    /\ [](StepsInOrder /\ StepsNeedEarlier)
    /\ [][NothingAfterFailure]_vars
    /\ <>(pc = "done" /\ IsSome(exit_status))

C9_Witness ==
    /\ pc = "done"
    /\ steps = <<"parse", "run_cellpose", "imread", "grayscale", "construct",
                 "eval", "imsave", "exit">>

\* C10: the reduction is applied exactly when the decoded array has three
\* axes and the third has length 3 or 4: arrays of two axes and of four or
\* more reach the model unchanged whatever their last axis, a three-axis
\* array with a third axis of 3 or 4 always as a two-axis array.
C10_ReductionDecision ==
    IsSome(eval_call) =>
        LET a == Get(decoded)
            p == Get(eval_call).img
            three == Len(a.shape) = 3 /\ a.shape[3] \in {3, 4}
        IN  /\ three <=> Contains(steps, "grayscale")
            /\ three <=> (p # a)
            /\ three => (Len(p.shape) = 2 /\ p.shape = SubSeq(a.shape, 1, 2))
            /\ (Len(a.shape) # 3) => p = a

C10_Witness ==
    /\ IsSome(eval_call)
    /\ Len(Get(decoded).shape) = 4
    /\ Get(decoded).shape[4] = 3
    /\ Get(eval_call).img = Get(decoded)

====
